---- MODULE Spec2Model ----
(***************************************************************************)
(* MSR23 ESP12 modem firmware (src/src/main.cpp): the AT command           *)
(* dispatcher, the connection slots, the AT+CIPSEND collector, the         *)
(* credentials record in EEPROM and the listening port in RTC user memory. *)
(* Bytes are integers 0..255; a C string is the bytes before the first 0.  *)
(***************************************************************************)
EXTENDS Integers, Sequences, FiniteSets, TLC

(* ---- program constants ---- *)
CREDS_MAGIC == 14337
MAX_CLIENTS == 16
HISTSIZE == 8
HistBufSize == 128
InputBufSize == 2048
SendBufSize == 2048
ReadBufSize == 2048
SsidSize == 33
PassSize == 64
HttpPort == 8080

(* ---- bounds of the environment ---- *)
\* lines typed, peers lost, inbound packets and resets, all together
MaxEvents == 2
\* the longest payload announced; shorter input reaches the UART in any split
MaxSendLen == 3
\* the longest ssid for which every text over a, ", comma and \ is typed
MaxWord == 2

(* ---- bytes and C strings ---- *)
Ord(c) ==
  CASE c = "A" -> 65 [] c = "C" -> 67 [] c = "D" -> 68 [] c = "E" -> 69
    [] c = "I" -> 73 [] c = "J" -> 74 [] c = "L" -> 76 [] c = "M" -> 77
    [] c = "N" -> 78 [] c = "O" -> 79 [] c = "P" -> 80 [] c = "R" -> 82
    [] c = "S" -> 83 [] c = "T" -> 84 [] c = "U" -> 85 [] c = "V" -> 86
    [] c = "W" -> 87 [] c = "X" -> 88
    [] c = "a" -> 97 [] c = "b" -> 98 [] c = "c" -> 99 [] c = "d" -> 100
    [] c = "p" -> 112 [] c = "q" -> 113 [] c = "s" -> 115 [] c = "x" -> 120
    [] c = "0" -> 48 [] c = "1" -> 49 [] c = "2" -> 50 [] c = "3" -> 51
    [] c = "4" -> 52 [] c = "5" -> 53 [] c = "6" -> 54 [] c = "7" -> 55
    [] c = "8" -> 56 [] c = "9" -> 57
    [] c = "+" -> 43 [] c = "=" -> 61 [] c = "?" -> 63 [] c = "," -> 44
    [] c = "-" -> 45 [] c = "*" -> 42 [] c = " " -> 32
    [] c = "\"" -> 34 [] c = "\\" -> 92 [] c = "\r" -> 13 [] c = "\n" -> 10

Str(t) == [k \in 1..Len(t) |-> Ord(t[k])]

NUL == 0
LF == 10
CR == 13
DQUOTE == 34
COMMA == 44
BACKSLASH == 92

Min(a, b) == IF a < b THEN a ELSE b
Max(a, b) == IF a > b THEN a ELSE b

Take(s, n) == SubSeq(s, 1, Min(n, Len(s)))
Drop(s, n) == SubSeq(s, Min(n, Len(s)) + 1, Len(s))

\* buf[k] of a zero-initialised global array whose written prefix is buf
Peek(buf, k) == IF k < Len(buf) THEN buf[k + 1] ELSE NUL

\* the array after storing bytes at buf + pos
Poke(buf, pos, bytes) ==
  [k \in 1..Max(Len(buf), pos + Len(bytes)) |->
     IF k > pos /\ k <= pos + Len(bytes) THEN bytes[k - pos]
     ELSE IF k <= Len(buf) THEN buf[k] ELSE NUL]

\* strlen(buf + k): up to the first NUL at or after k
StrLenFrom(buf, k) ==
  LET z == {j \in k..(Len(buf) - 1) : buf[j + 1] = NUL}
  IN IF k >= Len(buf) THEN 0
     ELSE IF z = {} THEN Len(buf) - k
     ELSE (CHOOSE j \in z : \A i \in z : j <= i) - k

\* the C string that starts at buf + k
CStrAt(buf, k) == SubSeq(buf, k + 1, k + StrLenFrom(buf, k))
CStr(buf) == CStrAt(buf, 0)

\* strncmp(a, lit, n) == 0 for a literal of n bytes
HasPrefix(s, lit) == Len(s) >= Len(lit) /\ SubSeq(s, 1, Len(lit)) = lit

\* a fixed-size char field holding the string s, zero filled (memset + strcpy)
Field(s, size) == [k \in 1..size |-> IF k <= Len(s) THEN s[k] ELSE NUL]

(* ---- sscanf("%d") and sscanf("%d,%d") ---- *)
IsSpace(b) == b \in {32, 9, 10, 11, 12, 13}
IsDigit(b) == b >= 48 /\ b <= 57

RECURSIVE SkipSpace(_, _)
SkipSpace(buf, k) == IF IsSpace(Peek(buf, k)) THEN SkipSpace(buf, k + 1) ELSE k

RECURSIVE ScanDigits(_, _, _)
ScanDigits(buf, k, acc) ==
  IF IsDigit(Peek(buf, k))
  THEN ScanDigits(buf, k + 1, acc * 10 + (Peek(buf, k) - 48))
  ELSE [val |-> acc, next |-> k]

\* one %d conversion at buf + k: leading white space, a sign, decimal digits
ScanInt(buf, k) ==
  LET s == SkipSpace(buf, k)
      neg == Peek(buf, s) = 45
      d == IF Peek(buf, s) \in {43, 45} THEN s + 1 ELSE s
      r == ScanDigits(buf, d, 0)
  IN IF ~IsDigit(Peek(buf, d))
     THEN [ok |-> FALSE, val |-> 0, next |-> k]
     ELSE [ok |-> TRUE, val |-> IF neg THEN 0 - r.val ELSE r.val, next |-> r.next]

\* sscanf(buf + k, "%d"): the number of conversions and the value
Scan1(buf, k) ==
  LET a == ScanInt(buf, k)
  IN [r |-> IF a.ok THEN 1 ELSE 0, a |-> a.val]

\* sscanf(buf + k, "%d,%d")
Scan2(buf, k) ==
  LET a == ScanInt(buf, k)
      b == ScanInt(buf, a.next + 1)
  IN IF ~a.ok THEN [r |-> 0, a |-> 0, b |-> 0]
     ELSE IF Peek(buf, a.next) # COMMA \/ ~b.ok THEN [r |-> 1, a |-> a.val, b |-> 0]
     ELSE [r |-> 2, a |-> a.val, b |-> b.val]

(* ---- credentials record (EEPROM offset 0) ---- *)
RECURSIVE SumBytes(_, _)
SumBytes(f, k) == IF k > Len(f) THEN 0 ELSE f[k] + SumBytes(f, k + 1)

\* the sum without the magic
creds_crc_nomagic(c) == (SumBytes(c.ssid, 1) + SumBytes(c.pass, 1)) % 65536

creds_crc(c) == (SumBytes(c.ssid, 1) + SumBytes(c.pass, 1) + CREDS_MAGIC) % 65536

\* memset + strcpy + creds_crc, lines 278..282
MakeCreds(ssid, pass) ==
  LET c == [crc |-> 0, pass |-> Field(pass, PassSize), ssid |-> Field(ssid, SsidSize)]
  IN [c EXCEPT !.crc = creds_crc(c)]

\* an erased EEPROM reads 0xFF everywhere
BlankCreds ==
  [crc |-> 65535, pass |-> [k \in 1..PassSize |-> 255], ssid |-> [k \in 1..SsidSize |-> 255]]

\* EEPROM.get and the check of setup(), lines 433..440
LoadCreds(e) ==
  IF e.crc = creds_crc(e) THEN e
  ELSE [e EXCEPT !.ssid = Poke(e.ssid, 0, <<NUL>>), !.pass = Poke(e.pass, 0, <<NUL>>)]

\* struct creds as it lies in EEPROM: crc (little endian), pass, ssid
CredsBytes == 2 + PassSize + SsidSize

GetByte(c, k) ==
  IF k = 0 THEN c.crc % 256
  ELSE IF k = 1 THEN c.crc \div 256
  ELSE IF k < 2 + PassSize THEN c.pass[k - 1]
  ELSE c.ssid[k - 1 - PassSize]

SetByte(c, k, b) ==
  IF k = 0 THEN [c EXCEPT !.crc = (c.crc \div 256) * 256 + b]
  ELSE IF k = 1 THEN [c EXCEPT !.crc = b * 256 + (c.crc % 256)]
  ELSE IF k < 2 + PassSize THEN [c EXCEPT !.pass[k - 1] = b]
  ELSE [c EXCEPT !.ssid[k - 1 - PassSize] = b]

(* ---- listening port in RTC user memory ---- *)
RumMagic == <<82, 85, 77>>

\* the four bytes of an int32, two's complement, little endian
DataBytes(d) ==
  <<d % 256, (d \div 256) % 256, (d \div 65536) % 256, (d \div 16777216) % 256>>

RtcSum(d) ==
  LET b == DataBytes(d) IN (b[1] + b[2] + b[3] + b[4]) % 256

rtc_usermem_set(data) ==
  [magic |-> RumMagic, checksum |-> RtcSum(data), data |-> data]

\* RTC memory after power loss: no magic
RtcGarbage == [magic |-> <<0, 0, 0>>, checksum |-> 0, data |-> 0]

\* [ok, data]: ok iff magic and checksum match
rtc_usermem_get(d) ==
  IF d.magic # RumMagic THEN [ok |-> FALSE, data |-> 0]
  ELSE IF RtcSum(d.data) # d.checksum THEN [ok |-> FALSE, data |-> 0]
  ELSE [ok |-> TRUE, data |-> d.data]

(* ---- serial output, connection slots ---- *)
\* one piece of text written to Serial
Tok(t, n, d) == [t |-> t, n |-> n, d |-> d]
T(t) == Tok(t, -1, <<>>)

Slots == 0..(MAX_CLIENTS - 1)
\* client[i] == nullptr
Free == [used |-> FALSE, up |-> FALSE, rx |-> <<>>]
\* a WiFiClient just accepted
Fresh == [used |-> TRUE, up |-> TRUE, rx |-> <<>>]
NoSlot == -1

Emit(g, toks) == [g EXCEPT !.out = g.out \o toks]
RespOk(g) == Emit(g, <<T("OK")>>)
RespError(g) == Emit(g, <<T("ERROR")>>)

(* ---- server_stop(), lines 141..166 ---- *)
server_stop_keeps_rtc(g) ==
  [g EXCEPT !.client = [i \in Slots |-> Free], !.server = FALSE, !.listen = 0,
            !.server_port = 0, !.connected = 0]

server_stop_keeps_count(g) ==
  [g EXCEPT !.client = [i \in Slots |-> Free], !.server = FALSE, !.listen = 0,
            !.server_port = 0, !.rtc = rtc_usermem_set(0)]

server_stop(g) ==
  [g EXCEPT !.client = [i \in Slots |-> Free], !.server = FALSE, !.listen = 0,
            !.server_port = 0, !.connected = 0, !.rtc = rtc_usermem_set(0)]

(* ---- history ring, lines 175..183 ---- *)
\* h[i].next = &h[i - 1], h[0].next = &h[HISTSIZE - 1]
HistNext(i) == IF i > 0 THEN i - 1 ELSE HISTSIZE - 1

HistoryPut(g, buf, len) ==
  LET n == HistNext(g.history)
  IN [g EXCEPT !.history = n,
               !.h[n] = IF len < HistBufSize THEN Take(buf, len)
                        ELSE Take(buf, HistBufSize - 1)]

\* strcpy_P(history->buffer + off, "*\""): seen only when off is not past the
\* terminator of the stored text
RedactNothing(hs, off) == hs

Redact(hs, off) == IF off <= Len(hs) THEN Take(hs, off) \o <<42, DQUOTE>> ELSE hs

(* ---- command literals ---- *)
LitAT == Str(<<"A", "T">>)
LitRST == Str(<<"A", "T", "+", "R", "S", "T">>)
LitCWMODE == Str(<<"A", "T", "+", "C", "W", "M", "O", "D", "E", "=", "1">>)
LitCIPMUX == Str(<<"A", "T", "+", "C", "I", "P", "M", "U", "X", "=", "1">>)
LitCWJAPQ == Str(<<"A", "T", "+", "C", "W", "J", "A", "P", "?">>)
LitCWJAP == Str(<<"A", "T", "+", "C", "W", "J", "A", "P", "=">>)
LitCIPSTA == Str(<<"A", "T", "+", "C", "I", "P", "S", "T", "A", "=">>)
LitCIPSERVER == Str(<<"A", "T", "+", "C", "I", "P", "S", "E", "R", "V", "E", "R", "=">>)
LitCIPCLOSE == Str(<<"A", "T", "+", "C", "I", "P", "C", "L", "O", "S", "E", "=">>)
LitCIPSEND == Str(<<"A", "T", "+", "C", "I", "P", "S", "E", "N", "D", "=">>)

(* ---- AT+CWJAP?, lines 205..230 ---- *)
\* the backslash itself is left alone
RECURSIVE EscapeForgetsBackslash(_)
EscapeForgetsBackslash(s) ==
  IF s = <<>> THEN <<>>
  ELSE (IF Head(s) \in {DQUOTE, COMMA} THEN <<BACKSLASH, Head(s)>> ELSE <<Head(s)>>)
       \o EscapeForgetsBackslash(Tail(s))

RECURSIVE Escape(_)
Escape(s) ==
  IF s = <<>> THEN <<>>
  ELSE (IF Head(s) \in {DQUOTE, COMMA, BACKSLASH} THEN <<BACKSLASH, Head(s)>> ELSE <<Head(s)>>)
       \o Escape(Tail(s))

CwJapQuery(g, isconn) ==
  IF isconn
  THEN RespOk(Emit(g, <<Tok("+CWJAP:", -1, Escape(CStr(g.creds.ssid)))>>))
  ELSE RespError(Emit(g, <<T("No AP")>>))

(* ---- AT+CWJAP="ssid","pass", lines 233..299 ---- *)
\* the copy loops at lines 246..250 and 263..267: [src, dst] when the loop ends
RECURSIVE ParseQuoted(_, _, _, _)
ParseQuoted(buf, src, dst, size) ==
  IF Peek(buf, src) # DQUOTE /\ Peek(buf, src) # NUL /\ Len(dst) < size - 1
  THEN LET s == IF Peek(buf, src) = BACKSLASH THEN src + 1 ELSE src
       IN ParseQuoted(buf, s + 1, Append(dst, Peek(buf, s)), size)
  ELSE [src |-> src, dst |-> dst]

\* *src++ != '"' || *src++ != ',' || *src++ != '"': [bad, src after the test]
Delimiter(buf, src) ==
  IF Peek(buf, src) # DQUOTE THEN [bad |-> TRUE, src |-> src + 1]
  ELSE IF Peek(buf, src + 1) # COMMA THEN [bad |-> TRUE, src |-> src + 2]
  ELSE [bad |-> Peek(buf, src + 2) # DQUOTE, src |-> src + 3]

\* lines 276..298: store and join
JoinNoSave(g, ssid, pass, joined) ==
  LET changed == ssid # CStr(g.creds.ssid) \/ pass # CStr(g.creds.pass)
      g1 == IF changed
            THEN [g EXCEPT !.creds = MakeCreds(ssid, pass), !.wifi = <<ssid, pass>>]
            ELSE g
      g2 == [g1 EXCEPT !.waited = TRUE]
  IN IF joined THEN RespOk(g2) ELSE Emit(g2, <<T("+CWJAP:1"), T("FAIL")>>)

Join(g, ssid, pass, joined) ==
  LET changed == ssid # CStr(g.creds.ssid) \/ pass # CStr(g.creds.pass)
      c == MakeCreds(ssid, pass)
      g1 == IF changed
            THEN [g EXCEPT !.creds = c, !.eeprom = c, !.wifi = <<ssid, pass>>]
            ELSE g
      g2 == [g1 EXCEPT !.waited = TRUE]
  IN IF joined THEN RespOk(g2) ELSE Emit(g2, <<T("+CWJAP:1"), T("FAIL")>>)

CwJap(g, buf, joined) ==
  IF Peek(buf, 9) # DQUOTE THEN RespError(g)
  ELSE
    LET s == ParseQuoted(buf, 10, <<>>, SsidSize)
        d == Delimiter(buf, s.src)
    IN IF d.bad THEN RespError(g)
       ELSE
         LET g1 == [g EXCEPT !.h[g.history] = Redact(g.h[g.history], d.src)]
             p == ParseQuoted(buf, d.src, <<>>, PassSize)
         IN IF Peek(buf, p.src) # DQUOTE THEN RespError(g1)
            ELSE Join(g1, CStr(s.dst), CStr(p.dst), joined)

(* ---- AT+CIPSERVER=, lines 308..327 ---- *)
CipServerRestart(g, buf) ==
  LET a == Scan2(buf, 13)
  IN IF a.r > 0 /\ a.a = 0 THEN RespOk(server_stop(g))
     ELSE IF a.r = 2 /\ a.a = 1 /\ a.b > 0 /\ a.b < 65536 /\ a.b # HttpPort
     THEN RespOk([g EXCEPT !.server = TRUE, !.listen = a.b, !.server_port = a.b,
                           !.rtc = rtc_usermem_set(a.b)])
     ELSE RespError(g)

CipServer(g, buf) ==
  LET a == Scan2(buf, 13)
  IN IF a.r > 0 /\ a.a = 0 THEN RespOk(server_stop(g))
     ELSE IF a.r = 2 /\ a.a = 1 /\ a.b > 0 /\ a.b < 65536 /\ a.b # HttpPort /\ ~g.server
     THEN RespOk([g EXCEPT !.server = TRUE, !.listen = a.b, !.server_port = a.b,
                           !.rtc = rtc_usermem_set(a.b)])
     ELSE RespError(g)

(* ---- AT+CIPCLOSE=, lines 330..351 ---- *)
CipCloseCountsFirst(g, buf) ==
  LET a == Scan1(buf, 12)
      g0 == [g EXCEPT !.connected = g.connected - 1]
  IN IF a.r # 1 THEN RespError(g)
     ELSE IF a.a < 0 \/ a.a >= MAX_CLIENTS THEN RespError(g)
     ELSE IF ~g.client[a.a].used THEN RespError(Emit(g0, <<T("link is not")>>))
     ELSE RespOk(Emit([g0 EXCEPT !.client[a.a] = Free], <<Tok("CLOSED", a.a, <<>>)>>))

CipClose(g, buf) ==
  LET a == Scan1(buf, 12)
  IN IF a.r # 1 THEN RespError(g)
     ELSE IF a.a < 0 \/ a.a >= MAX_CLIENTS THEN RespError(g)
     ELSE IF ~g.client[a.a].used THEN RespError(Emit(g, <<T("link is not")>>))
     ELSE RespOk(Emit([g EXCEPT !.client[a.a] = Free, !.connected = g.connected - 1],
                      <<Tok("CLOSED", a.a, <<>>)>>))

(* ---- AT+CIPSEND=, lines 354..378 ---- *)
\* what has happened since the last "> " prompt: the bytes read into send_buffer,
\* the socket writes, the SEND OK lines, and whether the transfer was reset
NoXfer == [on |-> FALSE, to |-> NoSlot, len |-> 0, got |-> <<>>, sent |-> <<>>,
           ok |-> 0, aborted |-> FALSE]
NewXfer(i, l) == [on |-> TRUE, to |-> i, len |-> l, got |-> <<>>, sent |-> <<>>,
                  ok |-> 0, aborted |-> FALSE]

\* the test at line 368 compares len, the length of the command line
CipSend(g, buf, len) ==
  LET a == Scan2(buf, 11)
  IN IF a.r # 2 THEN RespError(g)
     ELSE IF a.a < 0 \/ a.a >= MAX_CLIENTS THEN RespError(g)
     ELSE IF ~g.client[a.a].used \/ ~g.client[a.a].up THEN Emit(g, <<T("link is not")>>)
     ELSE IF len > SendBufSize THEN Emit(g, <<T("too long")>>)
     ELSE Emit([g EXCEPT !.send_to = a.a, !.send_pos = 0, !.send_len = a.b,
                    !.xfer = NewXfer(a.a, a.b)],
               <<T(">")>>)

(* ---- process_command(), lines 170..385 ---- *)
process_command(g, buf, len, joined) ==
  IF len = 0 THEN g
  ELSE
    LET g1 == HistoryPut(g, buf, len)
        command == CStr(buf)
    IN IF command = LitAT THEN RespOk(g1)
       ELSE IF command = LitRST THEN Emit(server_stop(g1), <<T("OK"), T("ready")>>)
       ELSE IF command = LitCWMODE THEN RespOk(g1)
       ELSE IF command = LitCIPMUX THEN RespOk(g1)
       ELSE IF command = LitCWJAPQ THEN CwJapQuery(g1, joined)
       ELSE IF len > 9 /\ HasPrefix(command, LitCWJAP) THEN CwJap(g1, buf, joined)
       ELSE IF len > 10 /\ HasPrefix(command, LitCIPSTA) THEN RespOk(g1)
       ELSE IF len > 13 /\ HasPrefix(command, LitCIPSERVER) THEN CipServer(g1, buf)
       ELSE IF len > 12 /\ HasPrefix(command, LitCIPCLOSE) THEN CipClose(g1, buf)
       ELSE IF len > 11 /\ HasPrefix(command, LitCIPSEND) THEN CipSend(g1, buf, len)
       ELSE RespError(g1)

(* ---- state ---- *)
VARIABLES
  creds, eeprom, rtc, wifi,
  server, listen, server_port, client, connected,
  input_buffer, input_len, input_pos,
  send_buffer, send_len, send_pos, send_to,
  h, history,
  pc, serial_out, dispatched, waited, xfer, overrun, refused,
  uart, wire, pending, scenario, nlines, ndrops, ndata, nresets

prog == <<creds, eeprom, rtc, wifi, server, listen, server_port, client, connected,
          input_buffer, input_len, input_pos, send_buffer, send_len, send_pos, send_to,
          h, history, serial_out, dispatched, waited, xfer, overrun>>
env == <<uart, wire, pending, scenario, nlines, ndrops, ndata, nresets>>
vars == <<prog, pc, refused, env>>

\* the globals as one record; out, line and waited describe the step being taken
Globals ==
  [creds |-> creds, eeprom |-> eeprom, rtc |-> rtc, wifi |-> wifi,
   server |-> server, listen |-> listen, server_port |-> server_port,
   client |-> client, connected |-> connected,
   input_buffer |-> input_buffer, input_len |-> input_len, input_pos |-> input_pos,
   send_buffer |-> send_buffer, send_len |-> send_len, send_pos |-> send_pos,
   send_to |-> send_to, h |-> h, history |-> history,
   out |-> <<>>, line |-> <<>>, waited |-> FALSE, xfer |-> xfer, overrun |-> overrun]

Store(g) ==
  /\ creds' = g.creds /\ eeprom' = g.eeprom /\ rtc' = g.rtc /\ wifi' = g.wifi
  /\ server' = g.server /\ listen' = g.listen /\ server_port' = g.server_port
  /\ client' = g.client /\ connected' = g.connected
  /\ input_buffer' = g.input_buffer /\ input_len' = g.input_len
  /\ input_pos' = g.input_pos
  /\ send_buffer' = g.send_buffer /\ send_len' = g.send_len
  /\ send_pos' = g.send_pos /\ send_to' = g.send_to
  /\ h' = g.h /\ history' = g.history
  /\ serial_out' = g.out /\ dispatched' = g.line /\ waited' = g.waited
  /\ xfer' = g.xfer /\ overrun' = g.overrun

(* ---- setup(), lines 413..458 ---- *)
Setup(e, r) ==
  LET c == LoadCreds(e)
      p == rtc_usermem_get(r)
      start == p.ok /\ p.data > 0
  IN [creds |-> c, eeprom |-> e, rtc |-> r,
      wifi |-> IF e.crc = creds_crc(e) THEN <<CStr(c.ssid), CStr(c.pass)>> ELSE <<>>,
      server |-> start, listen |-> IF start THEN p.data % 65536 ELSE 0,
      server_port |-> IF start THEN p.data ELSE 0,
      client |-> [i \in Slots |-> Free], connected |-> 0,
      input_buffer |-> <<>>, input_len |-> InputBufSize, input_pos |-> 0,
      send_buffer |-> <<>>, send_len |-> 0, send_pos |-> 0, send_to |-> NoSlot,
      h |-> [i \in 0..(HISTSIZE - 1) |-> <<>>], history |-> 0,
      out |-> <<T("ready")>>, line |-> <<>>, waited |-> FALSE, xfer |-> NoXfer,
      overrun |-> FALSE]

(* ---- loop(): serial input, lines 465..524 ---- *)
\* AT+CIPSEND buffer, lines 469..489; u is what Serial holds. Bytes stored past
\* the end of send_buffer set overrun.
Collect(g, u) ==
  LET l == Min(Len(u), g.send_len)
      buf == Poke(g.send_buffer, g.send_pos, Take(u, l))
      pos == g.send_pos + l
      rem == g.send_len - l
      g1 == [g EXCEPT !.send_buffer = buf, !.send_pos = pos, !.send_len = rem,
                      !.xfer.got = g.xfer.got \o Take(u, l),
                      !.overrun = g.overrun \/ pos > SendBufSize]
  IN IF rem = 0
     THEN Emit([g1 EXCEPT !.xfer.sent = Append(g.xfer.sent,
                                               [to |-> g.send_to, data |-> Take(buf, pos)]),
                          !.xfer.ok = g.xfer.ok + 1,
                          !.send_pos = 0, !.send_to = NoSlot],
               <<T("SEND OK")>>)
     ELSE g1

\* an int32 from its four bytes, little endian
FromBytes(b) ==
  b[1] + 256 * b[2] + 65536 * b[3] + 16777216 * (IF b[4] >= 128 THEN b[4] - 256 ELSE b[4])

\* The same read where send_len, send_pos and send_to lie right behind
\* send_buffer, in the order of their declarations (lines 61..64): the bytes
\* stored past the end of send_buffer land on them before lines 479..484 use
\* them. What lies behind send_to is not followed.
CollectAdjacent(g, u) ==
  LET l == Min(Len(u), g.send_len)
      inside == Max(Min(SendBufSize - g.send_pos, l), 0)
      off == Max(g.send_pos - SendBufSize, 0)
      mem == Poke(DataBytes(g.send_len) \o DataBytes(g.send_pos) \o DataBytes(g.send_to),
                  off, Drop(Take(u, l), inside))
      len0 == FromBytes(SubSeq(mem, 1, 4))
      pos0 == FromBytes(SubSeq(mem, 5, 8))
      to0 == FromBytes(SubSeq(mem, 9, 12))
      g1 == [g EXCEPT !.send_buffer = Take(Poke(g.send_buffer, g.send_pos, Take(u, inside)),
                                           SendBufSize),
                      !.send_pos = pos0 + l, !.send_len = len0 - l, !.send_to = to0,
                      !.xfer.got = g.xfer.got \o Take(u, l),
                      !.overrun = TRUE]
  IN IF g1.send_len = 0
     THEN Emit([g1 EXCEPT !.xfer.sent = Append(g.xfer.sent,
                                               [to |-> to0, data |-> g1.send_buffer]),
                          !.xfer.ok = g.xfer.ok + 1,
                          !.send_pos = 0, !.send_to = NoSlot],
               <<T("SEND OK")>>)
     ELSE g1

\* AT command buffer, lines 491..522
CommandInput(g, u, joined) ==
  LET l == Min(Len(u), g.input_len)
      buf == Poke(g.input_buffer, g.input_pos, Take(u, l))
      pos == g.input_pos + l
      g1 == Emit([g EXCEPT !.input_buffer = buf, !.input_pos = pos,
                           !.input_len = g.input_len - l],
                 IF l > 0 THEN <<Tok("echo", -1, Take(u, l))>> ELSE <<>>)
      g2 == IF pos > 0 /\ Peek(buf, pos - 1) = LF
            THEN LET n == pos - 1
                     len == IF n > 0 /\ Peek(buf, n - 1) = CR THEN n - 1 ELSE n
                     cmd == Poke(buf, len, <<NUL>>)
                     g3 == process_command([g1 EXCEPT !.input_buffer = cmd,
                                                      !.line = Take(cmd, len)],
                                           cmd, len, joined)
                 IN [g3 EXCEPT !.input_len = InputBufSize, !.input_pos = 0]
            ELSE g1
  IN IF g2.input_len = 0
     THEN [g2 EXCEPT !.input_len = InputBufSize, !.input_pos = 0]
     ELSE g2

SerialInput(g, u, joined) ==
  IF Len(u) > 0
  THEN IF g.send_len > 0 THEN Collect(g, u) ELSE CommandInput(g, u, joined)
  ELSE g

\* the bytes Serial.read() takes
Consumed(g, u) ==
  IF g.send_len > 0 THEN Min(Len(u), g.send_len) ELSE Min(Len(u), g.input_len)

(* ---- loop(): new connection, lines 529..549 ---- *)
RECURSIVE FirstFree(_, _)
FirstFree(cl, i) ==
  IF i = MAX_CLIENTS THEN MAX_CLIENTS
  ELSE IF ~cl[i].used THEN i ELSE FirstFree(cl, i + 1)

RECURSIVE LastFree(_, _)
LastFree(cl, i) ==
  IF i = MAX_CLIENTS THEN MAX_CLIENTS
  ELSE IF ~cl[MAX_CLIENTS - 1 - i].used THEN MAX_CLIENTS - 1 - i ELSE LastFree(cl, i + 1)

\* newClient is a waiting peer; the slot it gets, MAX_CLIENTS when it is stopped
AcceptAnySlot(g) ==
  LET i == LastFree(g.client, 0)
  IN IF i < MAX_CLIENTS
     THEN Emit([g EXCEPT !.client[i] = Fresh, !.connected = g.connected + 1],
               <<Tok("CONNECT", i, <<>>)>>)
     ELSE g

Accept(g) ==
  LET i == FirstFree(g.client, 0)
  IN IF i < MAX_CLIENTS
     THEN Emit([g EXCEPT !.client[i] = Fresh, !.connected = g.connected + 1],
               <<Tok("CONNECT", i, <<>>)>>)
     ELSE g

(* ---- loop(): connected clients, lines 551..587 ---- *)
DrainSlotKeepsSend(g, i) ==
  IF ~g.client[i].used THEN g
  ELSE IF ~g.client[i].up
  THEN Emit([g EXCEPT !.client[i] = Free, !.connected = g.connected - 1],
            <<Tok("CLOSED", i, <<>>)>>)
  ELSE IF Len(g.client[i].rx) <= 0 THEN g
  ELSE LET l == Min(Len(g.client[i].rx), ReadBufSize)
       IN Emit([g EXCEPT !.client[i].rx = Drop(g.client[i].rx, l)],
               <<Tok("+IPD", i, Take(g.client[i].rx, l)), T("OK")>>)

DrainSlot(g, i) ==
  IF ~g.client[i].used THEN g
  ELSE IF ~g.client[i].up
  THEN LET g1 == Emit([g EXCEPT !.client[i] = Free, !.connected = g.connected - 1],
                      <<Tok("CLOSED", i, <<>>)>>)
       IN IF g.send_len > 0 /\ g.send_to = i
          THEN [g1 EXCEPT !.send_pos = 0, !.send_len = 0, !.send_to = NoSlot,
                          !.xfer.aborted = TRUE]
          ELSE g1
  ELSE IF Len(g.client[i].rx) <= 0 THEN g
  ELSE LET l == Min(Len(g.client[i].rx), ReadBufSize)
       IN Emit([g EXCEPT !.client[i].rx = Drop(g.client[i].rx, l)],
               <<Tok("+IPD", i, Take(g.client[i].rx, l)), T("OK")>>)

\* the slots from the highest id down to i
RECURSIVE DrainFromDescending(_, _)
DrainFromDescending(g, i) ==
  IF i = MAX_CLIENTS THEN g
  ELSE CHOOSE r \in {DrainSlot(x, i) : x \in {DrainFromDescending(g, i + 1)}} : TRUE

RECURSIVE DrainFrom(_, _)
DrainFrom(g, i) ==
  IF i = MAX_CLIENTS THEN g
  ELSE CHOOSE r \in {DrainFrom(x, i + 1) : x \in {DrainSlot(g, i)}} : TRUE

(* ---- the serial host and the network peers ---- *)
CRLF == <<CR, LF>>
PayloadPattern == <<97, LF, 98, CR>>
Payload(n) == [k \in 1..n |-> PayloadPattern[((k - 1) % 4) + 1]]
InboundData == <<104, 105>>
\* one byte more than buffer[] takes in one client->read
LongInbound == [k \in 1..(ReadBufSize + 1) |-> 104 + (k % 2)]

Q == "\""
LineSrvStart == LitCIPSERVER \o Str(<<"1", ",", "8", "0", "8", "1">>)
LineSrvStart2 == LitCIPSERVER \o Str(<<"1", ",", "8", "0", "8", "2">>)
LineSrvHttp == LitCIPSERVER \o Str(<<"1", ",", "8", "0", "8", "0">>)
LineSrvZero == LitCIPSERVER \o Str(<<"1", ",", "0">>)
LineSrvStop == LitCIPSERVER \o Str(<<"0">>)
LineClose0 == LitCIPCLOSE \o Str(<<"0">>)
LineClose1 == LitCIPCLOSE \o Str(<<"1">>)
LineClose16 == LitCIPCLOSE \o Str(<<"1", "6">>)
LineCloseX == LitCIPCLOSE \o Str(<<"x">>)
LineSend(i, n) == LitCIPSEND \o <<48 + i, COMMA, 48 + n>>
LineSend16 == LitCIPSEND \o Str(<<"1", "6", ",", "1">>)
LineSendX == LitCIPSEND \o Str(<<"0", ",", "x">>)
LineSendBig == LitCIPSEND \o Str(<<"0", ",", "2", "0", "4", "9">>)
\* nine bytes more than send_buffer holds: up to the first byte of send_to
LineSendBig9 == LitCIPSEND \o Str(<<"0", ",", "2", "0", "5", "7">>)
LineUnknown == Str(<<"A", "T", "X">>)
LineSta == LitCIPSTA \o Str(<<"x">>)
LineJoin(s, p) == LitCWJAP \o Str(<<Q>>) \o s \o Str(<<Q, ",", Q>>) \o p \o Str(<<Q>>)

Sab == Str(<<"a", "b">>)
Scd == Str(<<"c", "d">>)
\* a\"b and p\,q as typed: the values a"b and p,q
SescT == Str(<<"a", "\\", Q, "b">>)
PescT == Str(<<"p", "\\", ",", "q">>)

\* AT+CWJAP="a\ : the line ends inside the quoted ssid, after a backslash
LineJoinOpen == LitCWJAP \o Str(<<Q, "a", "\\">>)

\* join lines the parser rejects: an ssid of 33 characters (one more than
\* ssid[] holds), a password of 64, and an ssid without its opening quote
LineJoinLongSsid == LineJoin([k \in 1..SsidSize |-> 97], Scd)
LineJoinLongPass == LineJoin(Sab, [k \in 1..PassSize |-> 97])
LineJoinBare == LitCWJAP \o Sab \o Str(<<",", Q>>) \o Scd \o Str(<<Q>>)

\* what the host may type, by scenario
Menu(sc) ==
  CASE sc = "cmd" ->
         {LitAT, LitRST, LitCWMODE, LitCIPMUX, LitCWJAPQ, LineSta, LineUnknown,
          LineSrvStart, LineSrvStart2, LineSrvHttp, LineSrvZero, LineSrvStop,
          LineClose0, LineClose16, LineCloseX, LineSend(1, 1), LineSend16, LineSendX}
    [] sc = "send" -> {LineSend(0, n) : n \in 0..MaxSendLen} \cup {LineClose0}
    [] sc = "join" ->
         {LineJoin(Sab, Scd), LineJoin(<<>>, <<>>), LineJoin(SescT, PescT),
          LineJoin(Str(<<"a", "b", "c", "d">>), Scd),
          LitCWJAP \o Str(<<Q, "a", "b", Q, ",", Q, "c">>),
          LineJoinOpen,
          LitCWJAP \o Str(<<"a", "b">>),
          LineJoinLongSsid, LineJoinLongPass, LineJoinBare,
          LitCWJAPQ}
    [] sc = "full" -> {LineSrvStop, LineClose1}
    [] sc = "big" -> {LineSendBig, LineSendBig9, LineSend(0, 0)}

\* how much the host and the network do, by scenario
PeerCap(sc) ==
  CASE sc = "full" -> MAX_CLIENTS + 1 [] sc = "join" -> 0 [] OTHER -> 2
Drops(sc) == sc \in {"send", "full", "big"}
Data(sc) == sc \in {"send", "big"}
Resets(sc) == sc \in {"cmd", "join", "big"}

\* what the persistent stores hold at the first start
FirstRtc(sc) ==
  IF sc \in {"send", "full", "big"} THEN {rtc_usermem_set(8081)} ELSE {RtcGarbage}
\* records to start from: written by a join, erased, full of 0xFF characters
\* under a matching checksum, and one whose checksum is off by the magic
CredsSamples ==
  {MakeCreds(Sab, Scd), MakeCreds(<<>>, <<>>),
   MakeCreds(Str(<<"a", Q, "b">>), Str(<<"p", ",", "q">>)),
   MakeCreds([k \in 1..(SsidSize - 1) |-> 255], [k \in 1..(PassSize - 1) |-> 255]),
   BlankCreds,
   [MakeCreds(Sab, Scd) EXCEPT !.crc = (MakeCreds(Sab, Scd).crc - CREDS_MAGIC) % 65536]}

FirstEeprom(sc) ==
  CASE sc = "join" -> {BlankCreds, MakeCreds(Sab, Scd)}
    [] sc = "creds" -> CredsSamples
    [] OTHER -> {MakeCreds(Sab, Scd)}

UsedSlots == {i \in Slots : client[i].used}
Budget == nlines + ndrops + ndata + nresets < MaxEvents

(* ---- actions of the program ---- *)
\* Bytes stored past the end of send_buffer fall on memory the source does not
\* name: either nothing the program uses is hit and the step ends as written, or
\* they hit the variables declared behind the buffer (CollectAdjacent); from
\* there on the program is not followed (pc "wild").
LoopSerial ==
  /\ pc = "serial"
  /\ \E joined \in BOOLEAN :
       \E g \in {SerialInput(Globals, uart, joined)} :
          /\ uart' = Drop(uart, Consumed(Globals, uart))
          /\ \E next \in (IF g.overrun /\ ~overrun THEN {"accept", "wild"} ELSE {"accept"}) :
               /\ pc' = next
               /\ IF next = "wild"
                  THEN \E w \in {CollectAdjacent(Globals, uart)} : Store(w)
                  ELSE Store(g)
  /\ UNCHANGED <<refused, wire, pending, scenario, nlines, ndrops, ndata, nresets>>

LoopAccept ==
  /\ pc = "accept"
  /\ IF server /\ pending
     THEN /\ \E g \in {Accept(Globals)} : Store(g)
          /\ refused' = (FirstFree(client, 0) = MAX_CLIENTS)
          /\ pending' = FALSE
     ELSE /\ \E g \in {Globals} : Store(g)
          /\ UNCHANGED <<refused, pending>>
  /\ pc' = "clients"
  /\ UNCHANGED <<uart, wire, scenario, nlines, ndrops, ndata, nresets>>

LoopClients ==
  /\ pc = "clients"
  /\ \E g \in {DrainFrom(Globals, 0)} : Store(g)
  /\ pc' = "serial"
  /\ UNCHANGED <<refused, env>>

\* a reset that keeps RTC memory
WarmReset ==
  /\ pc = "serial" /\ Resets(scenario) /\ Budget
  /\ \E g \in {Setup(eeprom, rtc)} : Store(g)
  /\ pc' = "serial" /\ refused' = FALSE
  /\ uart' = <<>> /\ pending' = FALSE /\ nresets' = nresets + 1
  /\ UNCHANGED <<wire, scenario, nlines, ndrops, ndata>>

(* ---- actions of the host and of the peers ----
   The program looks at the UART only in the serial step, at the listener only in
   the accept step and at inbound data only in the client step, so the host and
   the peers act right before the step that sees them; a peer may close before
   the serial step (AT+CIPSEND tests connected()) or before the client step. *)
HostLine ==
  /\ pc = "serial" /\ wire = <<>> /\ Budget
  /\ \E line \in Menu(scenario) : wire' = line \o CRLF
  /\ nlines' = nlines + 1
  /\ UNCHANGED <<prog, pc, refused, uart, pending, scenario, ndrops, ndata, nresets>>

\* after the prompt the host sends exactly the bytes it announced
HostPayload ==
  /\ pc = "serial" /\ wire = <<>> /\ uart = <<>> /\ send_len > 0 /\ send_pos = 0
  /\ wire' = Payload(send_len)
  /\ UNCHANGED <<prog, pc, refused, uart, pending, scenario, nlines, ndrops, ndata, nresets>>

\* the next n bytes reach the UART
SerialArrive ==
  /\ pc = "serial" /\ wire # <<>>
  /\ \E n \in (IF Len(wire) <= MaxSendLen THEN 1..Len(wire) ELSE {Len(wire)}) :
       /\ uart' = uart \o Take(wire, n)
       /\ wire' = Drop(wire, n)
  /\ UNCHANGED <<prog, pc, refused, pending, scenario, nlines, ndrops, ndata, nresets>>

PeerConnect ==
  /\ pc = "accept" /\ server /\ ~pending /\ Cardinality(UsedSlots) < PeerCap(scenario)
  /\ pending' = TRUE
  /\ UNCHANGED <<prog, pc, refused, uart, wire, scenario, nlines, ndrops, ndata, nresets>>

PeerClose ==
  /\ pc \in {"serial", "clients"} /\ Drops(scenario) /\ Budget
  /\ \E i \in UsedSlots :
       /\ client[i].up
       /\ client' = [client EXCEPT ![i].up = FALSE]
  /\ ndrops' = ndrops + 1
  /\ UNCHANGED <<creds, eeprom, rtc, wifi, server, listen, server_port, connected,
                 input_buffer, input_len, input_pos, send_buffer, send_len, send_pos,
                 send_to, h, history, serial_out, dispatched, waited, xfer, overrun,
                 pc, refused, uart, wire, pending, scenario, nlines, ndata, nresets>>

PeerData ==
  /\ pc = "clients" /\ Data(scenario) /\ Budget
  /\ \E i \in UsedSlots :
       /\ client[i].up /\ client[i].rx = <<>>
       /\ \E d \in {InboundData, LongInbound} : client' = [client EXCEPT ![i].rx = d]
  /\ ndata' = ndata + 1
  /\ UNCHANGED <<creds, eeprom, rtc, wifi, server, listen, server_port, connected,
                 input_buffer, input_len, input_pos, send_buffer, send_len, send_pos,
                 send_to, h, history, serial_out, dispatched, waited, xfer, overrun,
                 pc, refused, uart, wire, pending, scenario, nlines, ndrops, nresets>>

\* ssid and password values with the characters that get a backslash, short
\* ones in every combination and long ones up to the sizes of the fields
RECURSIVE Words(_)
Words(n) ==
  IF n = 0 THEN {<<>>}
  ELSE Words(n - 1) \cup {Append(w, c) : w \in Words(n - 1), c \in {97, DQUOTE, COMMA, BACKSLASH}}

Filled(n, tail) == [k \in 1..n |-> 97] \o tail

SsidValues ==
  Words(MaxWord) \cup
  {Filled(SsidSize - 1, <<>>), Filled(SsidSize - 2, <<BACKSLASH>>),
   Filled(SsidSize - 2, <<DQUOTE>>), Filled(SsidSize - 3, <<DQUOTE, COMMA>>),
   [k \in 1..(SsidSize - 1) |-> BACKSLASH]}

PassValues ==
  {<<>>, <<BACKSLASH>>, <<COMMA, DQUOTE>>,
   Filled(PassSize - 1, <<>>), Filled(PassSize - 2, <<BACKSLASH>>),
   [k \in 1..(PassSize - 1) |-> DQUOTE]}

\* the host types the join line for a pair, each value escaped the way
\* AT+CWJAP? prints the ssid; the line is read whole
JoinEscaped ==
  /\ scenario = "trip" /\ pc = "serial" /\ nlines = 0
  /\ \E s \in SsidValues, p \in PassValues, joined \in BOOLEAN :
       \E g \in {CommandInput(Globals, LineJoin(Escape(s), Escape(p)) \o CRLF, joined)} :
          Store(g)
  /\ pc' = "accept" /\ nlines' = nlines + 1
  /\ UNCHANGED <<refused, uart, wire, pending, scenario, ndrops, ndata, nresets>>

\* one byte of the record in EEPROM changes while the power is off; the next
\* start loads the record
ByteChange ==
  /\ scenario = "creds" /\ nresets = 0
  /\ \E k \in 0..(CredsBytes - 1), b \in 0..255 :
       /\ b # GetByte(eeprom, k)
       /\ \E g \in {Setup(SetByte(eeprom, k, b), rtc)} : Store(g)
  /\ pc' = "serial" /\ refused' = FALSE
  /\ uart' = <<>> /\ pending' = FALSE /\ nresets' = nresets + 1
  /\ UNCHANGED <<wire, scenario, nlines, ndrops, ndata>>

(* ---- specifications ---- *)
Start(scs) ==
  /\ scenario \in scs
  /\ \E e \in FirstEeprom(scenario), r \in FirstRtc(scenario) :
       \E g \in {Setup(e, r)} :
          /\ creds = g.creds /\ eeprom = g.eeprom /\ rtc = g.rtc /\ wifi = g.wifi
          /\ server = g.server /\ listen = g.listen /\ server_port = g.server_port
          /\ client = g.client /\ connected = g.connected
          /\ input_buffer = g.input_buffer /\ input_len = g.input_len
          /\ input_pos = g.input_pos
          /\ send_buffer = g.send_buffer /\ send_len = g.send_len
          /\ send_pos = g.send_pos /\ send_to = g.send_to
          /\ h = g.h /\ history = g.history
          /\ serial_out = g.out /\ dispatched = g.line /\ waited = g.waited
          /\ xfer = g.xfer /\ overrun = g.overrun
  /\ pc = "serial" /\ refused = FALSE
  /\ uart = <<>> /\ wire = <<>> /\ pending = FALSE
  /\ nlines = 0 /\ ndrops = 0 /\ ndata = 0 /\ nresets = 0

Init == Start({"cmd", "send", "join", "full"})
InitOversize == Start({"big"})

Next ==
  \/ LoopSerial \/ LoopAccept \/ LoopClients \/ WarmReset
  \/ HostLine \/ HostPayload \/ SerialArrive
  \/ PeerConnect \/ PeerClose \/ PeerData

Spec == Init /\ [][Next]_vars

\* creds_crc and the load of setup() over records and their one-byte changes
InitCreds == Start({"creds"})
SpecCreds == InitCreds /\ [][ByteChange]_vars

\* the escaping of AT+CWJAP? against the parser of AT+CWJAP=
InitEscape == Start({"trip"})
SpecEscape == InitEscape /\ [][JoinEscaped]_vars
SpecOversize == InitOversize /\ [][Next]_vars

(* ---- claims ---- *)
Idle == send_len = 0 /\ send_pos = 0 /\ send_to = NoSlot
Delivered == xfer.on /\ ~xfer.aborted /\ Len(xfer.got) = xfer.len

\* C1 (as stated): once the L bytes announced by an accepted AT+CIPSEND=i,L have
\* been read, however they were split, there has been exactly one write, to slot
\* i, of exactly those bytes, exactly one SEND OK, and the collector is idle.
C1_OneWritePerTransfer ==
  Delivered =>
    /\ xfer.sent = <<[to |-> xfer.to, data |-> xfer.got]>>
    /\ xfer.ok = 1
    /\ Idle

\* C1 for the lengths the buffer holds, 1..SendBufSize
C1_OneWriteInRange ==
  (Delivered /\ xfer.len >= 1 /\ xfer.len <= SendBufSize) =>
    /\ xfer.sent = <<[to |-> xfer.to, data |-> xfer.got]>>
    /\ xfer.ok = 1
    /\ Idle

\* C2 (as stated): the bytes collected never exceed the payload buffer, and an
\* announced length beyond it never arms the collector.
C2_LenFitsBuffer ==
  /\ send_pos <= SendBufSize
  /\ send_pos + send_len <= SendBufSize

\* C3: when the client step finds the peer of the collector's target slot gone,
\* part of the bytes being collected, the collector goes back to idle, nothing is
\* written to the socket and no SEND OK is emitted, then or later.
IsSendOk(t) == t.t = "SEND OK"
C3_AbortOnClose ==
  /\ [][(/\ pc = "clients" /\ pc' = "serial"
          /\ send_len > 0 /\ send_to \in Slots
          /\ client[send_to].used /\ ~client[send_to].up)
         => (/\ send_len' = 0 /\ send_pos' = 0 /\ send_to' = NoSlot
             /\ ~client'[send_to].used
             /\ xfer'.sent = <<>> /\ xfer'.ok = 0
             /\ SelectSeq(serial_out', IsSendOk) = <<>>)]_vars
  /\ [](xfer.aborted => xfer.sent = <<>> /\ xfer.ok = 0)

C3_Witness ==
  /\ xfer.aborted /\ Idle
  /\ Len(xfer.got) > 0 /\ Len(xfer.got) < xfer.len

\* C4: the RTC record always decodes to the port of the active listener, 0 or
\* nothing when there is none, and a warm reset brings back exactly the listener
\* that was active, or none.
RtcPort == IF rtc_usermem_get(rtc).ok /\ rtc_usermem_get(rtc).data > 0
           THEN rtc_usermem_get(rtc).data ELSE 0
C4_PortSurvivesReset ==
  /\ [](/\ RtcPort = (IF server THEN server_port ELSE 0)
        /\ listen = server_port
        /\ server = (server_port # 0))
  /\ [][nresets' # nresets =>
          (server' = server /\ listen' = listen /\ server_port' = server_port)]_vars

C4_Witness ==
  /\ scenario = "cmd" /\ nresets = 1 /\ nlines = 1 /\ rtc = rtc_usermem_set(8081)
  /\ server /\ listen = 8081 /\ serial_out = <<T("ready")>>

\* the OK, ERROR and FAIL lines of a step's output
IsTerminal(t) == t.t \in {"OK", "ERROR", "FAIL"}
Terminals(out) == [k \in 1..Len(SelectSeq(out, IsTerminal)) |-> SelectSeq(out, IsTerminal)[k].t]
Has(out, t) == \E k \in 1..Len(out) : out[k].t = t
\* the serial step that has just run handed this line to process_command
SerialStep == pc = "serial" /\ pc' = "accept"

\* C5: AT+CIPSERVER=1,<port> with a listener active answers ERROR and changes
\* neither listener, port, RTC record nor slots; AT+CIPSERVER=0 answers OK with or
\* without a listener and leaves no listener, no Active slot, count 0, port 0 and
\* a cleared RTC record.
C5_StartTwiceStopAlways ==
  [][SerialStep =>
       /\ (dispatched' \in {LineSrvStart, LineSrvStart2} /\ server) =>
            (/\ Terminals(serial_out') = <<"ERROR">>
             /\ UNCHANGED <<server, listen, server_port, rtc, client, connected>>)
       /\ dispatched' = LineSrvStop =>
            (/\ Terminals(serial_out') = <<"OK">>
             /\ ~server' /\ listen' = 0 /\ server_port' = 0 /\ connected' = 0
             /\ \A i \in Slots : client'[i] = Free
             /\ rtc' = rtc_usermem_set(0))]_vars

C5_Witness ==
  /\ pc = "accept" /\ dispatched = LineSrvStart2
  /\ server /\ server_port = 8081 /\ Terminals(serial_out) = <<"ERROR">>

\* C6: a waiting peer gets the lowest Free slot and i,CONNECT is written; with all
\* slots Active it is stopped, nothing is written, slots and count stay.
FreeSlots == {i \in Slots : ~client[i].used}
C6_LowestFreeSlot ==
  [][(pc = "accept" /\ pc' = "clients" /\ server /\ pending) =>
       IF FreeSlots # {}
       THEN LET i == CHOOSE k \in FreeSlots : \A j \in FreeSlots : k <= j
            IN /\ client' = [client EXCEPT ![i] = Fresh]
               /\ serial_out' = <<Tok("CONNECT", i, <<>>)>>
               /\ connected' = connected + 1
               /\ ~refused' /\ ~pending'
       ELSE /\ client' = client /\ connected' = connected
            /\ serial_out' = <<>>
            /\ refused' /\ ~pending']_vars

C6_Witness == refused /\ FreeSlots = {} /\ connected = MAX_CLIENTS /\ pc = "clients"

\* C7 (as stated): a non-empty line handed to process_command gets exactly one of
\* OK, ERROR, FAIL, except an accepted AT+CIPSEND, which gets the prompt alone.
C7_OneTerminalResponse ==
  (pc = "accept" /\ dispatched # <<>>) =>
     IF Has(serial_out, ">") THEN Terminals(serial_out) = <<>>
     ELSE Len(Terminals(serial_out)) = 1

\* C8: a command answered with ERROR, link is not or too long leaves slots, count,
\* listener, port, RTC record, credentials and collector as they were.
Rejected(out) == Has(out, "ERROR") \/ Has(out, "link is not") \/ Has(out, "too long")
C8_RejectedChangesNothing ==
  [][(SerialStep /\ dispatched' # <<>> /\ Rejected(serial_out')) =>
       UNCHANGED <<client, connected, server, listen, server_port, rtc,
                   creds, eeprom, wifi, send_len, send_pos, send_to>>]_vars

C8_Witness ==
  /\ pc = "accept" /\ dispatched = LineClose16
  /\ Rejected(serial_out) /\ server /\ connected > 0

\* the well-formed join lines the host types: the line, the values it carries
\* and the history text with the password replaced
Shown(s) == LitCWJAP \o Str(<<Q>>) \o s \o Str(<<Q, ",", Q, "*", Q>>)
JoinCases ==
  {[line |-> LineJoin(Sab, Scd), ssid |-> Sab, pass |-> Scd, shown |-> Shown(Sab)],
   [line |-> LineJoin(<<>>, <<>>), ssid |-> <<>>, pass |-> <<>>, shown |-> Shown(<<>>)],
   [line |-> LineJoin(SescT, PescT), ssid |-> Str(<<"a", Q, "b">>),
    pass |-> Str(<<"p", ",", "q">>), shown |-> Shown(SescT)]}
StoredPair(c) == <<CStr(c.ssid), CStr(c.pass)>>

\* C9: after a well-formed AT+CWJAP="ssid","pass" the history entry of the line
\* reads AT+CWJAP="ssid","*", while the credentials in memory, in the record and
\* handed to the WiFi join carry the real password.
C9_PasswordHiddenInHistory ==
  \A c \in JoinCases :
    (pc = "accept" /\ dispatched = c.line) =>
      /\ h[history] = c.shown
      /\ StoredPair(creds) = <<c.ssid, c.pass>>
      /\ (c.pass # <<>> => (wifi = <<c.ssid, c.pass>> /\ StoredPair(eeprom) = wifi))
      /\ waited

C9_Witness ==
  /\ pc = "accept" /\ dispatched = LineJoin(SescT, PescT)
  /\ wifi = <<Str(<<"a", Q, "b">>), Str(<<"p", ",", "q">>)>>
  /\ h[history] = Shown(SescT) /\ Terminals(serial_out) = <<"OK">>

\* C10 (as stated): after a well-formed join line the record in EEPROM holds
\* (s, p) with a valid checksum, whether the join ended in OK or in FAIL.
C10_RecordHoldsPair ==
  \A c \in JoinCases :
    (pc = "accept" /\ dispatched = c.line) =>
      (eeprom.crc = creds_crc(eeprom) /\ StoredPair(eeprom) = <<c.ssid, c.pass>>)

\* C10 (amended): after a well-formed join line, OK or FAIL, the next start loads
\* exactly (s, p) and the join wait has taken place; the record is rewritten,
\* with a valid checksum, exactly when (s, p) differs from the pair in memory,
\* so a rejected record stays as it is when s and p are both empty.
C10_RecordLoadsPair ==
  [][SerialStep =>
       \A c \in JoinCases :
         dispatched' = c.line =>
           /\ waited'
           /\ Terminals(serial_out') \in {<<"OK">>, <<"FAIL">>}
           /\ StoredPair(LoadCreds(eeprom')) = <<c.ssid, c.pass>>
           /\ IF StoredPair(creds) = <<c.ssid, c.pass>>
              THEN eeprom' = eeprom
              ELSE eeprom' = MakeCreds(c.ssid, c.pass) /\ eeprom'.crc = creds_crc(eeprom')]_vars

C10_Witness ==
  /\ pc = "accept" /\ dispatched = LineJoin(SescT, PescT)
  /\ Terminals(serial_out) = <<"FAIL">>
  /\ eeprom = MakeCreds(Str(<<"a", Q, "b">>), Str(<<"p", ",", "q">>))
  /\ nlines = 2

\* a line that ends inside the ssid is taken as a join: the copy loop steps over
\* the terminator and reads what an earlier, longer line left in input_buffer
OpenQuoteJoins ==
  /\ pc = "accept" /\ dispatched = LineJoinOpen /\ waited
  /\ StoredPair(eeprom) = <<Str(<<"a">>), Scd>>

\* C11: a record is accepted at load iff its checksum is the sum of the bytes
\* of ssid and pass, modulo 2^16, plus 14337; changing one byte of an accepted
\* record makes it rejected; a rejected record gives empty ssid and password.
Accepted(e) == e.crc = ((SumBytes(e.ssid, 1) + SumBytes(e.pass, 1)) % 65536) + 14337
Loaded == wifi # <<>>
C11_ChecksumDecides ==
  /\ [](/\ Loaded <=> Accepted(eeprom)
        /\ Loaded => (creds = eeprom /\ wifi = StoredPair(eeprom))
        /\ ~Loaded => StoredPair(creds) = <<<<>>, <<>>>>)
  /\ [][(nresets' # nresets /\ Loaded) => ~Loaded']_vars

C11_Witness ==
  /\ nresets = 1 /\ ~Loaded
  /\ eeprom = [MakeCreds(Sab, Scd) EXCEPT !.ssid[1] = 98]

\* C12: for every ssid of at most 32 and password of at most 63 characters, with
\* ", comma and \ among them, the value escaped as AT+CWJAP? escapes and then
\* parsed by AT+CWJAP= is the value itself.
C12_EscapeRoundTrip ==
  \A s \in SsidValues, p \in PassValues :
    (pc = "accept" /\ dispatched = LineJoin(Escape(s), Escape(p))) =>
      (StoredPair(creds) = <<s, p>> /\ wifi = <<s, p>> /\ StoredPair(eeprom) = <<s, p>>)

C12_Witness ==
  /\ pc = "accept" /\ waited
  /\ \E s \in SsidValues, p \in PassValues :
       /\ Len(s) = SsidSize - 1 /\ s[SsidSize - 1] = BACKSLASH
       /\ Len(p) = PassSize - 1 /\ p[1] = DQUOTE
       /\ dispatched = LineJoin(Escape(s), Escape(p))
       /\ StoredPair(creds) = <<s, p>>

C16_InRange ==
  (xfer.on /\ xfer.len <= SendBufSize) =>
    /\ send_len > 0 => send_pos + send_len = xfer.len
    /\ xfer.ok > 0 => (Len(xfer.sent) = 1 /\ Len(xfer.sent[1].data) = xfer.len)

C20_InRange ==
  (send_len > 0 /\ xfer.len <= SendBufSize) => (send_to \in Slots /\ client[send_to].used)

\* C13 (as stated): every prompt of an accepted AT+CIPSEND=i,L is followed by
\* SEND OK or by the abort that the closing of slot i causes.  SEND OK is
\* printed only in the collector branch of loop(), entered when send_len > 0
\* (line 469), and the abort resets only an armed collector (line 565); so a
\* prompt whose transfer has not ended yet must have left the collector armed,
\* or neither can follow however long loop() runs.
Prompted == xfer.on /\ xfer.ok = 0 /\ ~xfer.aborted
C13_PromptCanEnd == Prompted => send_len > 0

\* C13 for the lengths 1..2048: an open prompt leaves the collector armed for
\* the bytes still missing and aimed at the Active slot i, so that each
\* further payload byte brings SEND OK nearer and the closing of i aborts.
C13_InRange ==
  (Prompted /\ xfer.len >= 1 /\ xfer.len <= SendBufSize) =>
    /\ send_len > 0 /\ send_pos + send_len = xfer.len
    /\ send_to = xfer.to /\ client[send_to].used

\* what the line buffer holds once the serial step has read: the bytes kept from
\* earlier reads and the bytes of this read
Typed == Take(input_buffer, input_pos) \o Take(uart, Consumed(Globals, uart))
HasLine(s) == \E k \in 1..Len(s) : s[k] = LF
FirstLine(s) ==
  LET n == CHOOSE k \in 1..Len(s) : s[k] = LF /\ \A j \in 1..(k - 1) : s[j] # LF
  IN IF n > 1 /\ s[n - 1] = CR THEN Take(s, n - 2) ELSE Take(s, n - 1)
CommandRead == pc = "serial" /\ pc' = "accept" /\ send_len = 0 /\ uart # <<>>

\* C14 (as stated): in command mode a serial step whose bytes complete a line
\* hands that line, without its \n and optional \r, to the dispatcher as its
\* own command, whatever else the same read brought.
C14_EachLineDispatched ==
  [][(CommandRead /\ HasLine(Typed)) => dispatched' = FirstLine(Typed)]_vars

\* C14 for reads that end with the newline of the only line they complete
C14_LineEndsRead ==
  [][(CommandRead /\ HasLine(Typed) /\ Typed[Len(Typed)] = LF
        /\ \A k \in 1..(Len(Typed) - 1) : Typed[k] # LF)
       => dispatched' = FirstLine(Typed)]_vars

\* a serial step with bytes waiting while the collector is armed, and what
\* the claim says of it: the first min(available, remaining) bytes are taken,
\* stored in send_buffer behind those collected before and counted off
\* send_len; the line buffer is left alone, nothing is echoed, nothing is
\* dispatched, and the bytes behind them stay in the UART
ArmedRead == pc = "serial" /\ pc' # "serial" /\ send_len > 0 /\ uart # <<>>
PayloadOnly ==
  LET l == Min(Len(uart), send_len)
  IN /\ uart' = Drop(uart, l)
     /\ Len(send_buffer') <= SendBufSize
     /\ SubSeq(send_buffer', send_pos + 1, send_pos + l) = Take(uart, l)
     /\ send_len' = send_len - l
     /\ input_buffer' = input_buffer /\ input_pos' = input_pos /\ input_len' = input_len
     /\ dispatched' = <<>>
     /\ \A k \in 1..Len(serial_out') : serial_out'[k].t # "echo"

\* C15 (as stated): while the collector is armed every byte read goes to the
\* payload buffer and is counted off the remaining length, none is put in the
\* line buffer, echoed or dispatched, and at most the remaining number of bytes
\* is taken in one read.
C15_ArmedBytesArePayload == [][ArmedRead => PayloadOnly]_vars

\* C15 for the lengths the buffer holds
C15_InRange == [][(ArmedRead /\ xfer.len <= SendBufSize) => PayloadOnly]_vars

\* the password argument as typed is readable in a history text
Shows(hs, p) ==
  LET arg == <<COMMA, DQUOTE>> \o p
  IN \E k \in 0..(Len(hs) - Len(arg)) : SubSeq(hs, k + 1, k + Len(arg)) = arg

\* join lines with a password: accepted ones, and ones answered with ERROR
\* after (Late) or before (Early) the parser has reached the password
SecretsLate ==
  {[line |-> LineJoin(Sab, Scd), pass |-> Scd],
   [line |-> LineJoin(SescT, PescT), pass |-> PescT],
   [line |-> LineJoin(Str(<<"a", "b", "c", "d">>), Scd), pass |-> Scd],
   [line |-> LitCWJAP \o Str(<<Q, "a", "b", Q, ",", Q, "c">>), pass |-> Str(<<"c">>)],
   [line |-> LineJoinLongPass, pass |-> [k \in 1..PassSize |-> 97]]}
SecretsEarly ==
  {[line |-> LineJoinLongSsid, pass |-> Scd],
   [line |-> LineJoinBare, pass |-> Scd]}

\* C17 (as stated): the history entry committed for a line that begins with
\* AT+CWJAP= and carries a password does not show the password, also when the
\* line is answered with ERROR.
C17_HistoryHidesPassword ==
  \A j \in SecretsLate \cup SecretsEarly :
    (pc = "accept" /\ dispatched = j.line) => ~Shows(h[history], j.pass)

\* C17 for the lines whose ssid argument the parser gets past
C17_PastSsid ==
  \A j \in SecretsLate :
    (pc = "accept" /\ dispatched = j.line) => ~Shows(h[history], j.pass)

\* what the client step owes the slots cl: toks is what it printed, cl2 the
\* slots after it
Serviced(cl, toks, cl2) ==
  /\ \A i \in Slots :
       LET mine == {k \in 1..Len(toks) : toks[k].n = i}
       IN IF ~cl[i].used \/ (cl[i].up /\ cl[i].rx = <<>>)
          THEN mine = {} /\ cl2[i] = cl[i]
          ELSE /\ Cardinality(mine) = 1
               /\ \A k \in mine :
                    IF ~cl[i].up
                    THEN toks[k] = Tok("CLOSED", i, <<>>) /\ cl2[i] = Free
                    ELSE /\ toks[k] = Tok("+IPD", i, Take(cl[i].rx, ReadBufSize))
                         /\ k < Len(toks) /\ toks[k + 1] = T("OK")
                         /\ cl2[i] = [cl[i] EXCEPT !.rx = Drop(cl[i].rx, ReadBufSize)]
  /\ \A a, b \in 1..Len(toks) :
       (a < b /\ toks[a].n >= 0 /\ toks[b].n >= 0) => toks[a].n < toks[b].n
  /\ \A k \in 1..Len(toks) :
       toks[k].n < 0 => (k > 1 /\ toks[k - 1].t = "+IPD" /\ toks[k] = T("OK"))

\* C18: the client step comes after the accept step of the same iteration and
\* handles every Active slot once, in ascending order of slot id: a slot whose
\* peer is gone is freed and reported with i,CLOSED; of a slot with inbound
\* data at most 2048 bytes are taken and printed as +IPD,i,count:bytes and OK;
\* this holds whatever the other slots and the collector are doing.
C18_EachSlotOncePerIteration ==
  [][/\ (pc' = "clients" /\ pc # "clients") => pc = "accept"
     /\ (pc = "clients" /\ pc' = "serial") => Serviced(client, serial_out', client')]_vars

C18_Witness ==
  /\ pc = "serial"
  /\ serial_out = <<Tok("CLOSED", 0, <<>>),
                    Tok("+IPD", 1, Take(LongInbound, ReadBufSize)), T("OK")>>
  /\ client[0] = Free /\ Len(client[1].rx) = 1

\* C19: the counter connected equals the number of Active slots and lies in
\* 0..16, after accepts, peer disconnects, AT+CIPCLOSE, AT+CIPSERVER=0 and
\* AT+RST in any order.
C19_CountIsActiveSlots ==
  connected = Cardinality(UsedSlots) /\ connected \in 0..MAX_CLIENTS

\* the listener is stopped with all 16 slots Active and a 17th peer refused
C19_Witness ==
  /\ pc = "accept" /\ dispatched = LineSrvStop /\ refused
  /\ connected = 0 /\ UsedSlots = {} /\ ~server

====
